---- MODULE Spec2Model ----
(***************************************************************************)
(* A model of src/core-js-dates-tasks.js: the calendar helpers             *)
(* getNextFriday, getCountDaysOnPeriod, getCountWeekendsInMonth,           *)
(* getWeekNumberByDate, getNextFridayThe13th, getQuarter, getWorkSchedule  *)
(* and isLeapYear.                                                         *)
(*                                                                         *)
(* A JavaScript Date is an object holding one number, its time value in    *)
(* milliseconds since 1970-01-01T00:00:00Z.  Date objects live in `heap`   *)
(* (reference -> time value), so that a function that changes the object   *)
(* it was handed differs from one that builds a new object.  The Date      *)
(* methods are modelled after ECMA-262 (Day, TimeWithinDay, DayFromYear,   *)
(* YearFromTime, MonthFromTime, DateFromTime, WeekDay, MakeDay, MakeDate). *)
(* The local time zone is taken to be UTC (LocalTZA = 0, no daylight       *)
(* saving), so local time and UTC coincide.                                *)
(*                                                                         *)
(* A time value does not fit the 32-bit integers of the model checker, so  *)
(* it is kept as the two-digit number [day, ms] in base                    *)
(* MILLISECONDS_PER_DAY, day * MILLISECONDS_PER_DAY + ms with              *)
(* 0 <= ms < MILLISECONDS_PER_DAY; the arithmetic on it (TvSub, TvLe,      *)
(* TvLt, TvCeilDays) is exact, as it is on the doubles of the              *)
(* program for these magnitudes.                                           *)
(***************************************************************************)
EXTENDS Integers, Sequences, FiniteSets, TLC

\* ------------------------------------------------------------ constants
FRIDAY == 5
MILLISECONDS_PER_SECOND == 1000
SECONDS_PER_MINUTE == 60
MINUTES_PER_HOUR == 60
HOURS_PER_DAY == 24
DAYS_PER_WEEK == 7
WEEKENDS_PER_WEEK == 2
WEEKS_PER_MONTH == 4
MONTHS_PER_QUARTER == 3
MILLISECONDS_PER_DAY ==
  MILLISECONDS_PER_SECOND * SECONDS_PER_MINUTE * MINUTES_PER_HOUR * HOURS_PER_DAY
WEEKENDS == {"Sat", "Sun"}
MAGIC_DAY == 13

\* --------------------------------------------------------------- bounds
\* Date arguments are drawn from the years FirstYear .. FirstYear+NumYears-1
\* (28 consecutive years hold every weekday of January 1 in a leap and in a
\* common year) and, for isLeapYear, from the century years as well.
FirstYear == 2000
NumYears == 28
MaxWorkDays == 3
MaxOffDays == 3
MaxPeriodDays == 14
MaxSpanDays == 3

\* -------------------------------------------------- ECMA-262 date arithmetic
\* Math.floor(a / b) and Math.ceil(a / b) for integers a and b > 0.
Floor(a, b) == a \div b
Ceil(a, b) == -((-a) \div b)

\* Time values: [day, ms] stands for day * MILLISECONDS_PER_DAY + ms.
MakeDate(day, time) ==
  [day |-> day + Floor(time, MILLISECONDS_PER_DAY), ms |-> time % MILLISECONDS_PER_DAY]
Day(t) == t.day
TimeWithinDay(t) == t.ms
\* a - b, a <= b and a < b on time values (the results of getTime()).
TvSub(a, b) == MakeDate(a.day - b.day, a.ms - b.ms)
TvLe(a, b) == a.day < b.day \/ (a.day = b.day /\ a.ms <= b.ms)
TvLt(a, b) == a.day < b.day \/ (a.day = b.day /\ a.ms < b.ms)
\* Math.ceil(x / MILLISECONDS_PER_DAY) for a time-value difference x.
TvCeilDays(x) == x.day + Ceil(x.ms, MILLISECONDS_PER_DAY)

DayFromYear(y) ==
  365 * (y - 1970) + Floor(y - 1969, 4) - Floor(y - 1901, 100) + Floor(y - 1601, 400)

DaysInYear(y) == DayFromYear(y + 1) - DayFromYear(y)

YearFromDay(d) ==
  LET e == 1970 + Floor(d * 400, 146097)
  IN  CHOOSE y \in (e - 1)..(e + 1) : DayFromYear(y) <= d /\ d < DayFromYear(y + 1)

YearFromTime(t) == YearFromDay(Day(t))

\* Days before the first of month m (0-based) in a year of 365 or 366 days.
MonthStart(m, leap) ==
  <<0, 31, 59, 90, 120, 151, 181, 212, 243, 273, 304, 334, 365>>[m + 1]
    + (IF leap /\ m >= 2 THEN 1 ELSE 0)

InLeapYear(t) == DaysInYear(YearFromTime(t)) = 366

DayWithinYear(t) == Day(t) - DayFromYear(YearFromTime(t))

MonthFromTime(t) ==
  LET dy == DayWithinYear(t)
      leap == InLeapYear(t)
  IN  CHOOSE m \in 0..11 : MonthStart(m, leap) <= dy /\ dy < MonthStart(m + 1, leap)

DateFromTime(t) ==
  DayWithinYear(t) - MonthStart(MonthFromTime(t), InLeapYear(t)) + 1

WeekDay(t) == (Day(t) + 4) % 7

\* MakeDay(year, month, date): month and date may lie outside their ranges.
MakeDay(year, month, date) ==
  LET ym == year + Floor(month, 12)
      mn == month % 12
  IN  DayFromYear(ym) + MonthStart(mn, DaysInYear(ym) = 366) + date - 1

\* new Date(year, monthIndex, day): a year 0..99 stands for 1900 + year.
NewDate(year, month, date) ==
  LET yr == IF 0 <= year /\ year <= 99 THEN 1900 + year ELSE year
  IN  MakeDate(MakeDay(yr, month, date), 0)

\* Date.prototype getters, on the time value t.
getFullYear(t) == YearFromTime(t)
getMonth(t) == MonthFromTime(t)
getDate(t) == DateFromTime(t)
getDay(t) == WeekDay(t)

\* date.setDate(dt) and date.setMonth(m): the new time value of the object.
setDate(t, dt) ==
  MakeDate(MakeDay(YearFromTime(t), MonthFromTime(t), dt), TimeWithinDay(t))
setMonth(t, m) ==
  MakeDate(MakeDay(YearFromTime(t), m, DateFromTime(t)), TimeWithinDay(t))

\* Intl.DateTimeFormat('en-US', {weekday: 'short'}).format(date)
WeekdayShort(t) == <<"Sun", "Mon", "Tue", "Wed", "Thu", "Fri", "Sat">>[WeekDay(t) + 1]

\* ------------------------------------------------------------- strings
\* A string is the sequence of its characters.
DigitChars == <<"0", "1", "2", "3", "4", "5", "6", "7", "8", "9">>

\* s.slice(from, to)
slice(s, from, to) == SubSeq(s, from + 1, to)

\* +s for a string of decimal digits
RECURSIVE ToNumber(_)
ToNumber(s) ==
  IF s = <<>> THEN 0
  ELSE 10 * ToNumber(SubSeq(s, 1, Len(s) - 1))
         + (CHOOSE i \in 0..9 : DigitChars[i + 1] = s[Len(s)])

\* n.toString() for an integer n >= 0
RECURSIVE toString(_)
toString(n) ==
  IF n < 10 THEN <<DigitChars[n + 1]>>
  ELSE Append(toString(n \div 10), DigitChars[(n % 10) + 1])

\* s.padStart(len, ch)
RECURSIVE padStart(_, _, _)
padStart(s, len, ch) == IF Len(s) >= len THEN s ELSE padStart(<<ch>> \o s, len, ch)

\* ---------------------------------------------------------- the functions
\* getNextFriday without its first, unconditional step of one day.
getNextFridaySameDay(date) ==
  setDate(date, getDate(date) + ((DAYS_PER_WEEK + FRIDAY - getDay(date)) % DAYS_PER_WEEK))

\* getNextFriday: the time value the Date object ends with.
getNextFriday(date) ==
  LET d1 == setDate(date, getDate(date) + 1)
  IN  setDate(d1, getDate(d1) + ((DAYS_PER_WEEK + FRIDAY - getDay(d1)) % DAYS_PER_WEEK))

\* getCountDaysOnPeriod rounding down instead of up.
getCountDaysOnPeriodFloor(dateStart, dateEnd) == TvSub(dateEnd, dateStart).day + 1

getCountDaysOnPeriod(dateStart, dateEnd) ==
  LET diffMs == TvSub(dateEnd, dateStart)
  IN  TvCeilDays(diffMs) + 1

isWeekend(date) == WeekdayShort(date) \in WEEKENDS

\* The loop stopping one day early (start < endT).
RECURSIVE WeekendLoopEarly(_, _, _)
WeekendLoopEarly(start, endT, add) ==
  IF TvLt(start, endT) /\ add <= 2
  THEN WeekendLoopEarly(setDate(start, getDate(start) + 1), endT,
                        IF isWeekend(start) THEN add + 1 ELSE add)
  ELSE add

\* The while loop of getCountWeekendsInMonth, from the state (start, add).
RECURSIVE WeekendLoop(_, _, _)
WeekendLoop(start, endT, add) ==
  IF TvLe(start, endT) /\ add <= 2
  THEN WeekendLoop(setDate(start, getDate(start) + 1), endT,
                   IF isWeekend(start) THEN add + 1 ELSE add)
  ELSE add

getCountWeekendsInMonth(month, year) ==
  LET start0 == NewDate(year, month - 1, 1)
      end == NewDate(year, month, 0)
      res == WEEKS_PER_MONTH * WEEKENDS_PER_WEEK
      start == setDate(start0, getDate(start0) + WEEKS_PER_MONTH * DAYS_PER_WEEK)
  IN  res + WeekendLoop(start, end, 0)

getCountDays(dateStart, dateEnd) ==
  LET diffMs == TvSub(dateEnd, dateStart)
  IN  TvCeilDays(diffMs) + 1

getDayMondayFirst(d) == (getDay(d) + DAYS_PER_WEEK - 1) % DAYS_PER_WEEK

\* getWeekNumberByDate dividing the inclusive count of days (no "- 1").
getWeekNumberByDateInclusive(date) ==
  LET start == NewDate(getFullYear(date), 0, 1)
      days == getCountDays(start, date)
      weeks == Floor(days, DAYS_PER_WEEK) + 1
  IN  IF getDayMondayFirst(date) < getDayMondayFirst(start) THEN weeks + 1 ELSE weeks

getWeekNumberByDate(date) ==
  LET start == NewDate(getFullYear(date), 0, 1)
      days == getCountDays(start, date) - 1
      weeks == Floor(days, DAYS_PER_WEEK) + 1
  IN  IF getDayMondayFirst(date) < getDayMondayFirst(start) THEN weeks + 1 ELSE weeks

\* The search starting in the month of a date that is itself the 13th.
F13StartSameMonth(date) ==
  NewDate(getFullYear(date),
          getMonth(date) + (IF getDate(date) > MAGIC_DAY THEN 1 ELSE 0),
          MAGIC_DAY)

\* getNextFridayThe13th: the new Date it starts from, its loop test and body.
F13Start(date) ==
  NewDate(getFullYear(date),
          getMonth(date) + (IF getDate(date) >= MAGIC_DAY THEN 1 ELSE 0),
          MAGIC_DAY)
F13Continue(curD) == getDay(curD) # FRIDAY
F13Advance(curD) == setMonth(curD, getMonth(curD) + 1)

getQuarter(date) == Floor(getMonth(date), MONTHS_PER_QUARTER) + 1

\* isLeapYear testing 100 before 400.
isLeapYearCenturyFirst(date) ==
  LET y == getFullYear(date)
  IN  IF y % 100 = 0 THEN FALSE
      ELSE IF y % 400 = 0 THEN TRUE
      ELSE y % 4 = 0

isLeapYear(date) ==
  LET y == getFullYear(date)
  IN  IF y % 400 = 0 THEN TRUE
      ELSE IF y % 100 = 0 THEN FALSE
      ELSE y % 4 = 0

\* getWorkSchedule's helpers.
specialFormatDate(date) ==
  LET y == toString(getFullYear(date))
      m == padStart(toString(getMonth(date) + 1), 2, "0")
      d == padStart(toString(getDate(date)), 2, "0")
  IN  d \o <<"-">> \o m \o <<"-">> \o y

dateFromSpecialString(s) ==
  LET DAY_POSITION == 0
      DAY_LEN == 2
      MONTH_POSITION == 3
      MONTH_LEN == 2
      YEAR_POSITION == 6
      YEAR_LEN == 4
      y == slice(s, YEAR_POSITION, YEAR_POSITION + YEAR_LEN)
      m == slice(s, MONTH_POSITION, MONTH_POSITION + MONTH_LEN)
      d == slice(s, DAY_POSITION, DAY_POSITION + DAY_LEN)
  IN  NewDate(ToNumber(y), ToNumber(m) - 1, ToNumber(d))

\* The body resting only after countWorkDays + 1 days (> for >=).
WorkScheduleBodyLate(start, res, workDays, countWorkDays, countOffDays) ==
  LET res1 == Append(res, specialFormatDate(start))
      workDays1 == workDays + 1
      start1 == setDate(start, getDate(start) + 1)
  IN  IF workDays1 > countWorkDays
      THEN [start |-> setDate(start1, getDate(start1) + countOffDays),
            res |-> res1, workDays |-> 0]
      ELSE [start |-> start1, res |-> res1, workDays |-> workDays1]

\* The body advancing the cursor only when a work run ends.
WorkScheduleBodyStuck(start, res, workDays, countWorkDays, countOffDays) ==
  LET res1 == Append(res, specialFormatDate(start))
      workDays1 == workDays + 1
  IN  IF workDays1 >= countWorkDays
      THEN [start |-> setDate(start, getDate(start) + 1 + countOffDays),
            res |-> res1, workDays |-> 0]
      ELSE [start |-> start, res |-> res1, workDays |-> workDays1]

\* One pass of getWorkSchedule's while body, from the loop's variables.
WorkScheduleBody(start, res, workDays, countWorkDays, countOffDays) ==
  LET res1 == Append(res, specialFormatDate(start))
      workDays1 == workDays + 1
      start1 == setDate(start, getDate(start) + 1)
  IN  IF workDays1 >= countWorkDays
      THEN [start |-> setDate(start1, getDate(start1) + countOffDays),
            res |-> res1, workDays |-> 0]
      ELSE [start |-> start1, res |-> res1, workDays |-> workDays1]

getCountDaysInMonth(month, year) == getDate(NewDate(year, month, 0))

\* --------------------------------------------------------------- inputs
Years == FirstYear..(FirstYear + NumYears - 1)
CenturyYears == {1900, 2000, 2100, 2400}
ClockTimes == {0, 1, MILLISECONDS_PER_DAY - 1}
\* Every day of Years, at midnight and at the last millisecond of the day.
DateInputs ==
  {MakeDate(d, tm) : d \in DayFromYear(FirstYear)..(DayFromYear(FirstYear + NumYears) - 1),
                     tm \in {0, MILLISECONDS_PER_DAY - 1}}
\* Days around the 13th and at the ends of every month of Years.
MonthInputs ==
  {MakeDate(MakeDay(y, m, d), tm) :
     y \in Years, m \in 0..11, d \in {1, MAGIC_DAY - 1, MAGIC_DAY, MAGIC_DAY + 1, 28},
     tm \in {0, 1}}
YearInputs ==
  {MakeDate(MakeDay(y, m, 1), tm) : y \in Years \cup CenturyYears, m \in {0, 11}, tm \in {0, 1}}

\* n written with exactly `width` decimal digits.
RECURSIVE Digits(_, _)
Digits(n, width) ==
  IF width = 0 THEN <<>> ELSE Append(Digits(n \div 10, width - 1), DigitChars[(n % 10) + 1])
\* The 'DD-MM-YYYY' string of day number d.
DDMMYYYY(d) ==
  LET t == MakeDate(d, 0)
  IN  Digits(DateFromTime(t), 2) \o <<"-">> \o Digits(MonthFromTime(t) + 1, 2)
        \o <<"-">> \o Digits(YearFromTime(t), 4)
\* First days of the periods handed to getWorkSchedule.
PeriodStarts ==
  {MakeDay(2024, 0, 1), MakeDay(2023, 1, 24), MakeDay(2024, 1, 24), MakeDay(2023, 11, 26)}

\* ---------------------------------------------------------------- state
VARIABLES
  pc,        \* "idle", "getNextFridayThe13th", "getWorkSchedule" (in its loop), "done"
  op,        \* the function called last
  heap,      \* the Date objects: reference (index) -> time value
  arg,       \* the arguments of the call
  given,     \* the values the caller passed, as they were at the call
  ret,       \* what the function returned
  start,     \* getWorkSchedule: the cursor Date
  endT,      \* getWorkSchedule: end.getTime()
  res,       \* getWorkSchedule: the array being built
  workDays   \* getWorkSchedule: the work-run counter
vars == <<pc, op, heap, arg, given, ret, start, endT, res, workDays>>

Zero == MakeDate(0, 0)
NoArg ==
  [date |-> 0, dateStart |-> Zero, dateEnd |-> Zero, month |-> 0, year |-> 0,
   period |-> [start |-> <<>>, end |-> <<>>], countWorkDays |-> 0, countOffDays |-> 0]
NoGiven == [date |-> Zero, start |-> 0, end |-> 0]
NoRet == [kind |-> "none", ref |-> 0, num |-> 0, bool |-> FALSE, arr |-> <<>>]
DateRet(r) == [NoRet EXCEPT !.kind = "date", !.ref = r]
NumRet(n) == [NoRet EXCEPT !.kind = "number", !.num = n]
BoolRet(b) == [NoRet EXCEPT !.kind = "boolean", !.bool = b]
ArrRet(a) == [NoRet EXCEPT !.kind = "array", !.arr = a]

NoLocals == start = Zero /\ endT = Zero /\ res = <<>> /\ workDays = 0

Init ==
  /\ pc = "idle" /\ op = "none" /\ heap = <<>> /\ arg = NoArg /\ given = NoGiven
  /\ ret = NoRet /\ NoLocals

\* In each call with a Date, the caller builds the Date (reference 1) and passes it.
\* getNextFriday changes the Date it was handed and returns that same object.
GetNextFriday ==
  /\ pc = "idle"
  /\ \E t \in DateInputs :
       /\ arg' = [NoArg EXCEPT !.date = 1]
       /\ given' = [NoGiven EXCEPT !.date = t]
       /\ heap' = <<getNextFriday(t)>>
       /\ ret' = DateRet(1)
  /\ pc' = "done" /\ op' = "getNextFriday"
  /\ UNCHANGED <<start, endT, res, workDays>>

GetWeekNumberByDate ==
  /\ pc = "idle"
  /\ \E t \in DateInputs :
       /\ arg' = [NoArg EXCEPT !.date = 1]
       /\ given' = [NoGiven EXCEPT !.date = t]
       /\ heap' = <<t>>
       /\ ret' = NumRet(getWeekNumberByDate(t))
  /\ pc' = "done" /\ op' = "getWeekNumberByDate"
  /\ UNCHANGED <<start, endT, res, workDays>>

GetQuarter ==
  /\ pc = "idle"
  /\ \E t \in MonthInputs :
       /\ arg' = [NoArg EXCEPT !.date = 1]
       /\ given' = [NoGiven EXCEPT !.date = t]
       /\ heap' = <<t>>
       /\ ret' = NumRet(getQuarter(t))
  /\ pc' = "done" /\ op' = "getQuarter"
  /\ UNCHANGED <<start, endT, res, workDays>>

IsLeapYear ==
  /\ pc = "idle"
  /\ \E t \in YearInputs :
       /\ arg' = [NoArg EXCEPT !.date = 1]
       /\ given' = [NoGiven EXCEPT !.date = t]
       /\ heap' = <<t>>
       /\ ret' = BoolRet(isLeapYear(t))
  /\ pc' = "done" /\ op' = "isLeapYear"
  /\ UNCHANGED <<start, endT, res, workDays>>

\* getNextFridayThe13th: curD is a new Date (reference 2).
GetNextFridayThe13thBegin ==
  /\ pc = "idle"
  /\ \E t \in MonthInputs :
       /\ arg' = [NoArg EXCEPT !.date = 1]
       /\ given' = [NoGiven EXCEPT !.date = t]
       /\ heap' = <<t, F13Start(t)>>
  /\ pc' = "getNextFridayThe13th" /\ op' = "getNextFridayThe13th"
  /\ UNCHANGED <<ret, start, endT, res, workDays>>

GetNextFridayThe13thLoop ==
  /\ pc = "getNextFridayThe13th"
  /\ F13Continue(heap[2])
  /\ heap' = [heap EXCEPT ![2] = F13Advance(@)]
  /\ UNCHANGED <<pc, op, arg, given, ret, start, endT, res, workDays>>

GetNextFridayThe13thReturn ==
  /\ pc = "getNextFridayThe13th"
  /\ ~F13Continue(heap[2])
  /\ pc' = "done"
  /\ ret' = DateRet(2)
  /\ UNCHANGED <<op, heap, arg, given, start, endT, res, workDays>>

GetCountDaysOnPeriod ==
  /\ pc = "idle"
  /\ \E d \in PeriodStarts, n \in 0..MaxSpanDays, ts \in ClockTimes, te \in ClockTimes :
       LET dateStart == MakeDate(d, ts)
           dateEnd == MakeDate(d + n, te)
       IN  /\ TvLe(dateStart, dateEnd)
           /\ arg' = [NoArg EXCEPT !.dateStart = dateStart, !.dateEnd = dateEnd]
           /\ ret' = NumRet(getCountDaysOnPeriod(dateStart, dateEnd))
  /\ pc' = "done" /\ op' = "getCountDaysOnPeriod"
  /\ UNCHANGED <<heap, given, start, endT, res, workDays>>

GetCountWeekendsInMonth ==
  /\ pc = "idle"
  /\ \E month \in 1..12, year \in Years :
       /\ arg' = [NoArg EXCEPT !.month = month, !.year = year]
       /\ ret' = NumRet(getCountWeekendsInMonth(month, year))
  /\ pc' = "done" /\ op' = "getCountWeekendsInMonth"
  /\ UNCHANGED <<heap, given, start, endT, res, workDays>>

\* getWorkSchedule up to its loop: the period may end before it starts.
GetWorkScheduleBegin ==
  /\ pc = "idle"
  /\ \E s \in PeriodStarts, n \in (-2)..MaxPeriodDays,
        w \in 1..MaxWorkDays, o \in 1..MaxOffDays :
       LET period == [start |-> DDMMYYYY(s), end |-> DDMMYYYY(s + n)]
       IN  /\ arg' = [NoArg EXCEPT !.period = period, !.countWorkDays = w,
                                    !.countOffDays = o]
           /\ given' = [NoGiven EXCEPT !.start = s, !.end = s + n]
           /\ start' = dateFromSpecialString(period.start)
           /\ endT' = dateFromSpecialString(period.end)
  /\ pc' = "getWorkSchedule" /\ op' = "getWorkSchedule"
  /\ res' = <<>>
  /\ workDays' = 0
  /\ UNCHANGED <<heap, ret>>

GetWorkScheduleLoop ==
  /\ pc = "getWorkSchedule"
  /\ TvLe(start, endT)
  /\ LET next == WorkScheduleBody(start, res, workDays, arg.countWorkDays, arg.countOffDays)
     IN  start' = next.start /\ res' = next.res /\ workDays' = next.workDays
  /\ UNCHANGED <<pc, op, heap, arg, given, ret, endT>>

GetWorkScheduleReturn ==
  /\ pc = "getWorkSchedule"
  /\ ~TvLe(start, endT)
  /\ pc' = "done"
  /\ ret' = ArrRet(res)
  /\ UNCHANGED <<op, heap, arg, given, start, endT, res, workDays>>

\* The caller is done with the result; every object of the call is dropped.
Return ==
  /\ pc = "done"
  /\ pc' = "idle" /\ op' = "none" /\ heap' = <<>> /\ arg' = NoArg /\ given' = NoGiven
  /\ ret' = NoRet /\ start' = Zero /\ endT' = Zero /\ res' = <<>> /\ workDays' = 0

Next ==
  \/ GetNextFriday
  \/ GetCountDaysOnPeriod
  \/ GetCountWeekendsInMonth
  \/ GetWeekNumberByDate
  \/ GetNextFridayThe13thBegin
  \/ GetNextFridayThe13thLoop
  \/ GetNextFridayThe13thReturn
  \/ GetQuarter
  \/ GetWorkScheduleBegin
  \/ GetWorkScheduleLoop
  \/ GetWorkScheduleReturn
  \/ IsLeapYear
  \/ Return

Spec == Init /\ [][Next]_vars
\* ----------------------------------------------------------------- claims
Done(name) == pc = "done" /\ op = name
\* The Date a call returned, and the Date the caller passed as it was.
Returned == heap[ret.ref]
PlusDays(t, k) == MakeDate(Day(t) + k, TimeWithinDay(t))
IsFriday13(t) == DateFromTime(t) = 13 /\ WeekDay(t) = 5

\* The schedule of the days s + k, k >= 0, s + k <= e, k mod (W + O) < W, ascending.
ExpectedSchedule(s, e, W, O) ==
  LET Ks == {k \in 0..(e - s) : k % (W + O) < W}
  IN  [i \in 1..Cardinality(Ks) |->
         DDMMYYYY(s + (CHOOSE k \in Ks : Cardinality({j \in Ks : j < k}) = i - 1))]

\* C1: getWorkSchedule returns exactly the dates start + k with k >= 0,
\* start + k <= end and k mod (W + O) < W, ascending, one entry each, and
\* nothing when start is after end.
C1_WorkSchedule ==
  Done("getWorkSchedule") =>
    ret.arr = ExpectedSchedule(given.start, given.end, arg.countWorkDays, arg.countOffDays)

\* The spec's instance: 01-01-2024 .. 15-01-2024 with W = 1, O = 3.
C1_Witness ==
  /\ Done("getWorkSchedule")
  /\ arg.period = [start |-> DDMMYYYY(MakeDay(2024, 0, 1)), end |-> DDMMYYYY(MakeDay(2024, 0, 15))]
  /\ arg.countWorkDays = 1 /\ arg.countOffDays = 3
  /\ ret.arr = << <<"0", "1", "-", "0", "1", "-", "2", "0", "2", "4">>,
                  <<"0", "5", "-", "0", "1", "-", "2", "0", "2", "4">>,
                  <<"0", "9", "-", "0", "1", "-", "2", "0", "2", "4">>,
                  <<"1", "3", "-", "0", "1", "-", "2", "0", "2", "4">> >>

MonthIndex(t) == 12 * YearFromTime(t) + MonthFromTime(t)

\* C2: getNextFridayThe13th returns a Friday the 13th strictly after the input
\* with no Friday the 13th strictly between the two, also for an input that is
\* itself a Friday the 13th; and its search over the months ends: the cursor is
\* always the 13th of a month at most 14 months after the input's.
C2_NextFridayThe13th ==
  /\ Done("getNextFridayThe13th") =>
       /\ ret.kind = "date"
       /\ IsFriday13(Returned)
       /\ TvLt(given.date, Returned)
       /\ \A x \in (Day(given.date) + 1)..(Day(Returned) - 1) : ~IsFriday13(MakeDate(x, 0))
  /\ pc = "getNextFridayThe13th" =>
       /\ DateFromTime(heap[2]) = 13
       /\ MonthIndex(heap[2]) - MonthIndex(given.date) \in 0..14

C2_Witness ==
  /\ Done("getNextFridayThe13th")
  /\ IsFriday13(given.date)
  /\ IsFriday13(Returned)
  /\ Day(Returned) > Day(given.date)

\* C3: getNextFriday returns a Friday strictly later than the input d, 1 to 7
\* days after d with no Friday strictly between; for a Friday d it is d + 7 days.
C3_NextFriday ==
  Done("getNextFriday") =>
    /\ ret.kind = "date"
    /\ WeekDay(Returned) = 5
    /\ TvLt(given.date, Returned)
    /\ \E k \in 1..7 :
         /\ Returned = PlusDays(given.date, k)
         /\ \A j \in 1..(k - 1) : WeekDay(PlusDays(given.date, j)) # 5
    /\ WeekDay(given.date) = 5 => Returned = PlusDays(given.date, 7)

C3_Witness ==
  /\ Done("getNextFriday")
  /\ WeekDay(given.date) = 5
  /\ Returned = PlusDays(given.date, 7)

\* The Saturdays and Sundays of a month, by a scan of all its days.
WeekendDaysByScan(month, year) ==
  Cardinality({d \in 1..getCountDaysInMonth(month, year) :
                 WeekDay(MakeDate(MakeDay(year, month - 1, d), 0)) \in {0, 6}})

\* C4: getCountWeekendsInMonth(month, year) is the number of Saturdays and
\* Sundays found by a day-by-day scan of the month, and it is 8, 9 or 10.
C4_WeekendsInMonth ==
  Done("getCountWeekendsInMonth") =>
    /\ ret.num = WeekendDaysByScan(arg.month, arg.year)
    /\ ret.num \in {8, 9, 10}

\* December 2023 (31 days, the 1st a Friday) has 10 weekend days.
C4_Witness ==
  /\ Done("getCountWeekendsInMonth")
  /\ arg.month = 12 /\ arg.year = 2023
  /\ ret.num = 10

\* Days from January 1 of t's year to t, and January 1's Monday-indexed weekday.
DaysSinceJanuary1(t) == Day(t) - DayFromYear(YearFromTime(t))
MondayIndex(day) == (day + 3) % 7
January1MondayIndex(t) == MondayIndex(DayFromYear(YearFromTime(t)))

\* C5: getWeekNumberByDate(d) = floor((n + s) / 7) + 1, n the days from
\* January 1 to d and s the Monday-indexed weekday of January 1.
C5_WeekNumber ==
  Done("getWeekNumberByDate") =>
    ret.num = Floor(DaysSinceJanuary1(given.date) + January1MondayIndex(given.date), 7) + 1

C7_LeapYear ==
  Done("isLeapYear") =>
    LET y == YearFromTime(given.date)
    IN  ret.bool = ((y % 4 = 0 /\ y % 100 # 0) \/ y % 400 = 0)

C7_Witness ==
  /\ Done("isLeapYear")
  /\ YearFromTime(given.date) = 2000
  /\ ret.bool

\* C8: after getNextFriday, getNextFridayThe13th, getWeekNumberByDate,
\* getQuarter or isLeapYear returns, the caller's Date holds the instant it
\* held before the call, and a returned Date is not the caller's object.
C8_ArgumentUnchanged ==
  (pc = "done" /\ op \in {"getNextFriday", "getNextFridayThe13th",
                          "getWeekNumberByDate", "getQuarter", "isLeapYear"}) =>
    /\ heap[arg.date] = given.date
    /\ ret.kind = "date" => ret.ref # arg.date

\* The inclusive count of calendar days from January 1 to t.
InclusiveDays(t) == DaysSinceJanuary1(t) + 1
EarlierInWeek(t) == MondayIndex(Day(t)) < January1MondayIndex(t)

\* C9, as claimed: the result is floor(c / 7) + 1, c the inclusive count of
\* days from January 1, plus 1 when the date's Monday-indexed weekday is
\* smaller than January 1's.
C9_InclusiveCount ==
  Done("getWeekNumberByDate") =>
    ret.num = Floor(InclusiveDays(given.date), 7) + 1
                + (IF EarlierInWeek(given.date) THEN 1 ELSE 0)

\* C9, amended: the number divided by 7 is c - 1 for a date at 00:00:00.000
\* and c for a date with a time of day.
C9_ElapsedCount ==
  Done("getWeekNumberByDate") =>
    LET c == InclusiveDays(given.date)
        e == IF TimeWithinDay(given.date) = 0 THEN c - 1 ELSE c
    IN  ret.num = Floor(e, 7) + 1 + (IF EarlierInWeek(given.date) THEN 1 ELSE 0)

\* A date at midnight whose inclusive count is a multiple of 7.
C9_Witness ==
  /\ Done("getWeekNumberByDate")
  /\ TimeWithinDay(given.date) = 0
  /\ InclusiveDays(given.date) % 7 = 0
  /\ ret.num = Floor(InclusiveDays(given.date) - 1, 7) + 1
                 + (IF EarlierInWeek(given.date) THEN 1 ELSE 0)

\* Between two passes of getWorkSchedule's loop.
C10_Loop ==
  pc = "getWorkSchedule" =>
    LET first == MakeDate(given.start, 0)
        last == MakeDate(given.end, 0)
        emitted == [i \in 1..Len(res) |-> dateFromSpecialString(res[i])]
    IN  /\ workDays \in 0..(arg.countWorkDays - 1)
        /\ \A i \in 1..Len(res) : TvLe(first, emitted[i]) /\ TvLe(emitted[i], last)
        /\ \A i \in 1..(Len(res) - 1) : TvLt(emitted[i], emitted[i + 1])
        /\ Len(res) > 0 => TvLt(emitted[Len(res)], start)
        /\ Len(res) <= IF given.end < given.start THEN 0 ELSE given.end - given.start + 1

\* One pass of the loop: it is taken only with the cursor at or before the
\* end, emits the cursor, and moves it by 1 day or by 1 + countOffDays days.
C10_Pass ==
  (pc = "getWorkSchedule" /\ pc' = "getWorkSchedule") =>
    /\ TvLe(start, endT)
    /\ res' = Append(res, DDMMYYYY(Day(start)))
    /\ \/ /\ workDays + 1 < arg.countWorkDays
          /\ workDays' = workDays + 1
          /\ start' = PlusDays(start, 1)
       \/ /\ workDays + 1 = arg.countWorkDays
          /\ workDays' = 0
          /\ start' = PlusDays(start, 1 + arg.countOffDays)

\* C10: every emitted date lies in the period (the test cursor > end comes
\* before each emission), the cursor strictly increases on every pass (by 1,
\* or by 1 + countOffDays with the counter reset), emitted dates ascend, the
\* counter stays in 0..countWorkDays-1 between passes, and there are at most
\* end - start + 1 emissions.
C10_WorkScheduleLoop == [](C10_Loop) /\ [][C10_Pass]_vars

C10_Witness ==
  /\ pc = "getWorkSchedule"
  /\ arg.countWorkDays = 3 /\ arg.countOffDays = 2
  /\ workDays = 2
  /\ Len(res) = 5
  /\ ~TvLe(start, endT)
====
